---------------------------- MODULE Spec2Model ----------------------------
(***************************************************************************)
(* Model of src/app.py: the filename search-and-copy tool.                 *)
(*                                                                         *)
(* A file name is a sequence of one-character strings, a path is a         *)
(* sequence of names (the components below the filesystem root), and a     *)
(* file is the pair <<directory, name>>.                                   *)
(***************************************************************************)
EXTENDS Integers, Sequences, FiniteSets, TLC

(***************************************************************************)
(* Bounds of the model.                                                    *)
(***************************************************************************)
MaxFiles == 2        \* files in the tree of the concurrent specifications
MaxRuns == 2         \* runs of the repeated-run specification
MaxKeywords == 2     \* keywords of the matching specification
MaxDstFiles == 3     \* files in the destination of the resolver specification

(***************************************************************************)
(* Strings.                                                                *)
(***************************************************************************)
Digits == <<"0", "1", "2", "3", "4", "5", "6", "7", "8", "9">>

RECURSIVE Decimal(_)
\* str(idx) inside the f-string of line 39
Decimal(n) ==
    IF n < 10 THEN <<Digits[n + 1]>>
    ELSE Decimal(n \div 10) \o <<Digits[(n % 10) + 1]>>

\* Python's `kw in filename` on str: exact, case-sensitive containment
IsSubstring(kw, s) ==
    \E i \in 0..(Len(s) - Len(kw)) : SubSeq(s, i + 1, i + Len(kw)) = kw

\* str.rfind(c), 1-based; 0 when c does not occur
RFind(s, c) ==
    LET Hits == {i \in 1..Len(s) : s[i] = c}
    IN  IF Hits = {} THEN 0 ELSE CHOOSE i \in Hits : \A j \in Hits : j <= i

\* pathlib's PurePath.suffix: from the last dot, unless that dot is the first
\* or the last character of the name
Suffix(name) ==
    LET i == RFind(name, ".")
    IN  IF 1 < i /\ i < Len(name) THEN SubSeq(name, i, Len(name)) ELSE <<>>

\* pathlib's PurePath.stem
Stem(name) ==
    LET i == RFind(name, ".")
    IN  IF 1 < i /\ i < Len(name) THEN SubSeq(name, 1, i - 1) ELSE name

\* the suffix put after the extension
SuffixedNameAfterExt(base, idx, ext) == base \o ext \o <<"_">> \o Decimal(idx)

\* f"{base}_{idx}{ext}"
SuffixedName(base, idx, ext) == base \o <<"_">> \o Decimal(idx) \o ext

\* str.strip() for the blank character
RECURSIVE LStrip(_)
LStrip(s) == IF s # <<>> /\ Head(s) = " " THEN LStrip(Tail(s)) ELSE s

RECURSIVE RStrip(_)
RStrip(s) ==
    IF s # <<>> /\ s[Len(s)] = " " THEN RStrip(SubSeq(s, 1, Len(s) - 1)) ELSE s

Strip(s) == RStrip(LStrip(s))

RECURSIVE ParseKeywords(_)
\* [line.strip() for line in raw_text.splitlines() if line.strip()]
ParseKeywords(lines) ==
    IF lines = <<>> THEN <<>>
    ELSE IF Strip(Head(lines)) # <<>>
         THEN <<Strip(Head(lines))>> \o ParseKeywords(Tail(lines))
         ELSE ParseKeywords(Tail(lines))

(***************************************************************************)
(* The matching loop of process_single_file.  matched_kw is <<>> for None  *)
(* and <<kw>> for a keyword.                                               *)
(***************************************************************************)
None == <<>>

RECURSIVE MatchLoopNoBreak(_, _, _)
\* the loop without its `break`: a later keyword that matches wins
MatchLoopNoBreak(filename, keywords, i) ==
    IF i > Len(keywords) THEN None
    ELSE LET later == MatchLoopNoBreak(filename, keywords, i + 1)
         IN  IF later # None THEN later
             ELSE IF \E j \in 0..(Len(filename) - Len(keywords[i])) :
                        SubSeq(filename, j + 1, j + Len(keywords[i])) = keywords[i]
                  THEN <<keywords[i]>>
                  ELSE None

RECURSIVE MatchLoop(_, _, _)
\* lines 20-24: the first keyword, in list order, that the name contains
MatchLoop(filename, keywords, i) ==
    IF i > Len(keywords) THEN None
    ELSE IF IsSubstring(keywords[i], filename) THEN <<keywords[i]>>
    ELSE MatchLoop(filename, keywords, i + 1)

\* the match without the containment test: the first keyword always hits
MatchAlways(filename, keywords) == <<keywords[1]>>

MatchKeyword(filename, keywords) == MatchLoop(filename, keywords, 1)

(***************************************************************************)
(* Paths.                                                                  *)
(***************************************************************************)
Dot == <<".">>
DotDot == <<".", ".">>

RECURSIVE ResolveFrom(_, _)
\* Path.resolve() on an absolute path without symbolic links: "." is
\* dropped and ".." removes the component before it
ResolveFrom(acc, rest) ==
    IF rest = <<>> THEN acc
    ELSE IF Head(rest) = Dot THEN ResolveFrom(acc, Tail(rest))
    ELSE IF Head(rest) = DotDot
         THEN ResolveFrom(IF acc = <<>> THEN acc ELSE SubSeq(acc, 1, Len(acc) - 1),
                          Tail(rest))
    ELSE ResolveFrom(Append(acc, Head(rest)), Tail(rest))

Resolve(p) == ResolveFrom(<<>>, p)

\* PurePath.parents: the proper ancestors
Parents(p) == {SubSeq(p, 1, k) : k \in 0..(Len(p) - 1)}

RECURSIVE SetToSeq(_)
\* the order in which a directory listing returns its entries: unspecified
\* by the operating system, fixed here
SetToSeq(S) ==
    IF S = {} THEN <<>>
    ELSE LET x == CHOOSE y \in S : TRUE IN <<x>> \o SetToSeq(S \ {x})

(***************************************************************************)
(* The filesystem: dirs is the set of directories (resolved paths), files  *)
(* maps each existing file <<directory, name>> to its content.  A content  *)
(* records the file the bytes come from and whether they are all there.    *)
(***************************************************************************)
Content(origin) == [data |-> origin, complete |-> TRUE]
Partial(c) == [data |-> c.data, complete |-> FALSE]

\* os.path.isdir on an entry of the form
IsDir(p, D) == p # <<>> /\ Resolve(p) \in D

\* Path.exists(): a file or a directory of that name
Exists(path, F, D) == path \in DOMAIN F \/ (path[1] \o <<path[2]>>) \in D

\* the names os.walk lists as files of a directory
FilesIn(d, F) == SetToSeq({q[2] : q \in {r \in DOMAIN F : r[1] = d}})

\* the names os.walk lists as subdirectories of a directory
SubDirs(d, D) ==
    SetToSeq({e[Len(d) + 1] : e \in {x \in D : /\ Len(x) = Len(d) + 1
                                              /\ SubSeq(x, 1, Len(d)) = d}})

\* a listing of the top directory alone, without the recursion
WalkTopOnly(top, D) == <<top>>

RECURSIVE Walk(_, _)
RECURSIVE WalkEach(_, _, _)
\* os.walk(top), top-down: the roots it yields, spelled as joined onto top.
\* A `continue` in the loop body does not prune: every directory is visited.
Walk(top, D) == <<top>> \o WalkEach(top, SubDirs(Resolve(top), D), D)

WalkEach(top, names, D) ==
    IF names = <<>> THEN <<>>
    ELSE Walk(Append(top, Head(names)), D) \o WalkEach(top, Tail(names), D)

\* the test without the ancestors: only the destination itself is skipped
SkipOnlyItself(dst_path_obj, current_dir) == dst_path_obj = current_dir

\* line 139: the directory is the destination or lies under it
Skip(dst_path_obj, current_dir) ==
    dst_path_obj = current_dir \/ dst_path_obj \in Parents(current_dir)

\* lines 141-142: the files of one directory, as paths
Listed(current_dir, F) ==
    LET names == FilesIn(current_dir, F)
    IN  [i \in 1..Len(names) |-> <<current_dir, names[i]>>]

RECURSIVE ScanLoop(_, _, _)
\* lines 136-142: the loop over os.walk's roots
ScanLoop(roots, dst_path_obj, F) ==
    IF roots = <<>> THEN <<>>
    ELSE LET current_dir == Resolve(Head(roots))
         IN  (IF Skip(dst_path_obj, current_dir) THEN <<>>
              ELSE Listed(current_dir, F))
             \o ScanLoop(Tail(roots), dst_path_obj, F)

\* lines 131-142: all_files
Scan(s, d, F, D) == ScanLoop(Walk(s, D), Resolve(d), F)

(***************************************************************************)
(* State.                                                                  *)
(***************************************************************************)
VARIABLES
    txt_keywords,     \* the lines of the keyword box
    entry_src_path,   \* the source folder entry
    entry_dst_path,   \* the destination folder entry
    dirs, files,      \* the filesystem
    btn_run,          \* state of the run button: "normal" or "disabled"
    txt_log,          \* the lines of the log box
    dialog,           \* the last message box shown
    after_queue,      \* callbacks scheduled with self.after(0, ...)
    pc,               \* position of the run_parallel_task thread
    keywords, src, dst,   \* its arguments
    all_files, copied_count,
    max_workers,      \* size of the ThreadPoolExecutor
    presses,          \* how often the user presses the run button
    tasks,            \* one submitted future per index
    completed,        \* futures in the order in which they finished
    yielded,          \* futures as_completed has handed to the loop
    runs,             \* history: runs started
    dst_before,       \* history: the destination's files when the run started
    first_count,      \* history: the count reported by the first run
    visited           \* history: the roots os.walk has yielded in the latest scan

inputs == <<txt_keywords, entry_src_path, entry_dst_path, dirs, max_workers, presses>>
ui == <<btn_run, txt_log, dialog>>
thread == <<pc, keywords, src, dst, all_files, copied_count>>
pool == <<tasks, completed>>
history == <<runs, dst_before, first_count, visited>>
vars == <<inputs, files, ui, after_queue, thread, pool, yielded, history>>

Msg(kind, name, kw, n) == [kind |-> kind, name |-> name, kw |-> kw, n |-> n]
Result(status, name, detail) == [status |-> status, name |-> name, detail |-> detail]
NoResult == Result("None", <<>>, <<>>)

\* the destination directory a run writes to
DstDir == Resolve(entry_dst_path)

\* the files of a directory with their contents
Snapshot(d, F) == [q \in {r \in DOMAIN F : r[1] = d} |-> F[q]]

(***************************************************************************)
(* The interface thread.                                                   *)
(***************************************************************************)
\* the checks without the one of the destination
ValidInputNoDst(kws, s, d, D) == kws # <<>> /\ IsDir(s, D)

\* lines 110-118: the three checks of start_process
ValidInput(kws, s, d, D) == kws # <<>> /\ IsDir(s, D) /\ IsDir(d, D)

\* start_process without line 121: the button stays enabled
StartProcessNoLock ==
    /\ btn_run = "normal"
    /\ runs < presses
    /\ LET kws == ParseKeywords(txt_keywords)
       IN  IF ValidInput(kws, entry_src_path, entry_dst_path, dirs)
           THEN /\ txt_log' = <<Msg("START", <<>>, <<>>, Len(kws))>>
                /\ pc' = "scan"
                /\ keywords' = kws
                /\ src' = entry_src_path
                /\ dst' = entry_dst_path
                /\ runs' = runs + 1
                /\ dst_before' = Snapshot(DstDir, files)
                /\ UNCHANGED <<btn_run, dialog, all_files, copied_count, first_count,
                               visited>>
           ELSE /\ dialog' = "warning"
                /\ UNCHANGED <<btn_run, txt_log, thread, history>>
    /\ UNCHANGED <<inputs, files, after_queue, pool, yielded>>

\* start_process (lines 102-128), run by a press of the enabled button
StartProcess ==
    /\ btn_run = "normal"
    /\ runs < presses
    /\ LET kws == ParseKeywords(txt_keywords)
       IN  IF ValidInput(kws, entry_src_path, entry_dst_path, dirs)
           THEN /\ btn_run' = "disabled"
                /\ txt_log' = <<Msg("START", <<>>, <<>>, Len(kws))>>
                /\ pc' = "scan"
                /\ keywords' = kws
                /\ src' = entry_src_path
                /\ dst' = entry_dst_path
                /\ runs' = runs + 1
                /\ dst_before' = Snapshot(DstDir, files)
                /\ UNCHANGED <<dialog, all_files, copied_count, first_count, visited>>
           ELSE /\ dialog' = "warning"
                /\ UNCHANGED <<btn_run, txt_log, thread, history>>
    /\ UNCHANGED <<inputs, files, after_queue, pool, yielded>>

\* append_log (lines 90-94)
AppendLog(log, message) == Append(log, message)

\* one callback of the after queue: append_log, or ui_finish (lines 96-99)
RunAfter ==
    /\ after_queue # <<>>
    /\ LET cb == Head(after_queue)
       IN  /\ after_queue' = Tail(after_queue)
           /\ IF cb.fn = "ui_finish"
              THEN /\ txt_log' = AppendLog(txt_log, Msg("DONE", <<>>, <<>>, cb.msg.n))
                   /\ btn_run' = "normal"
                   /\ dialog' = "info"
                   /\ first_count' = IF runs = 1 THEN cb.msg.n ELSE first_count
              ELSE /\ txt_log' = AppendLog(txt_log, cb.msg)
                   /\ UNCHANGED <<btn_run, dialog, first_count>>
    /\ UNCHANGED <<inputs, files, thread, pool, yielded, runs, dst_before, visited>>

\* self.after(0, fn, msg), called from the worker thread
After(queue, fn, msg) == Append(queue, [fn |-> fn, msg |-> msg])

(***************************************************************************)
(* The run_parallel_task thread.                                           *)
(***************************************************************************)
NewTask(filepath) ==
    [pc |-> "pending", filepath |-> filepath, matched_kw |-> None,
     target_file |-> <<>>, base |-> <<>>, ext |-> <<>>, idx |-> 0,
     result |-> NoResult]

\* lines 150-153: one future per element of all_files
Submit(fs) == [i \in 1..Len(fs) |-> NewTask(fs[i])]

\* lines 131-153: the scan, its log line, and the submission of the tasks
RunScan ==
    /\ pc = "scan"
    /\ LET fs == Scan(src, dst, files, dirs)
       IN  /\ all_files' = fs
           /\ after_queue' = After(after_queue, "append_log",
                                   Msg("TARGETS", <<>>, <<>>, Len(fs)))
           /\ tasks' = Submit(fs)
    /\ copied_count' = 0
    /\ completed' = <<>>
    /\ yielded' = <<>>
    /\ pc' = "collect"
    /\ visited' = Walk(src, dirs)
    /\ UNCHANGED <<inputs, files, ui, keywords, src, dst, runs, dst_before, first_count>>

\* as_completed that hands out a finished future whether or not it was
\* handed out before
AsCompletedAgain(done, seen) == {done[i] : i \in 1..Len(done)}

\* as_completed: the next finished future not handed out before, if any
AsCompleted(done, seen) ==
    IF Len(seen) < Len(done) THEN {done[Len(seen) + 1]} ELSE {}

\* a loop that ends without waiting for the futures
ExhaustedEarly(futures, seen) == TRUE

\* as_completed is exhausted once every future has been handed out
Exhausted(futures, seen) == Len(seen) = Len(futures)

\* line 149: leaving the `with` block waits for every submitted task
Shutdown(futures) == \A i \in DOMAIN futures : futures[i].pc = "done"

\* the loop with future.result() re-raising a task's error: the thread dies
CollectAbort ==
    /\ pc = "collect"
    /\ \E f \in AsCompleted(completed, yielded) :
          /\ yielded' = Append(yielded, f)
          /\ LET result == tasks[f].result
             IN  IF result.status = "COPIED"
                 THEN /\ copied_count' = copied_count + 1
                      /\ after_queue' = After(after_queue, "append_log",
                                              Msg("COPIED", result.name, result.detail, 0))
                      /\ pc' = pc
                 ELSE /\ pc' = IF result.status = "ERROR" THEN "dead" ELSE pc
                      /\ UNCHANGED <<copied_count, after_queue>>
    /\ UNCHANGED <<inputs, files, ui, keywords, src, dst, all_files, pool, history>>

\* lines 155-164: one iteration of the loop over as_completed
Collect ==
    /\ pc = "collect"
    /\ \E f \in AsCompleted(completed, yielded) :
          /\ yielded' = Append(yielded, f)
          /\ LET result == tasks[f].result
             IN  IF result.status = "COPIED"
                 THEN /\ copied_count' = copied_count + 1
                      /\ after_queue' = After(after_queue, "append_log",
                                              Msg("COPIED", result.name, result.detail, 0))
                 ELSE UNCHANGED <<copied_count, after_queue>>
    /\ UNCHANGED <<inputs, files, ui, pc, keywords, src, dst, all_files, pool, history>>

\* line 166: after the loop and the executor's shutdown, schedule ui_finish
Finish ==
    /\ pc = "collect"
    /\ Exhausted(tasks, yielded)
    /\ Shutdown(tasks)
    /\ after_queue' = After(after_queue, "ui_finish", Msg("DONE", <<>>, <<>>, copied_count))
    /\ pc' = "idle"
    /\ UNCHANGED <<inputs, files, ui, keywords, src, dst, all_files, copied_count,
                   pool, yielded, history>>

(***************************************************************************)
(* process_single_file, run by a worker of the pool for task t.  Its       *)
(* steps are the accesses to the filesystem, which other workers share.    *)
(***************************************************************************)
\* a pool that never counts a worker as taken
RunningNone == {}

\* the tasks a worker is executing
Running == {i \in DOMAIN tasks : tasks[i].pc \notin {"pending", "done"}}

\* the function returns: the future is finished with this result
Return(t, result) ==
    /\ tasks' = [tasks EXCEPT ![t].pc = "done", ![t].result = result]
    /\ completed' = Append(completed, t)

\* a write that never replaces another file's bytes: it goes beside them
WrittenBeside(F, path, content) ==
    LET free == IF path \in DOMAIN F /\ F[path].data # content.data
                THEN <<path[1], path[2] \o <<"~">>>>
                ELSE path
    IN  [q \in DOMAIN F \cup {free} |-> IF q = free THEN content ELSE F[q]]

\* the file a write to path leaves behind
Written(F, path, content) ==
    [q \in DOMAIN F \cup {path} |-> IF q = path THEN content ELSE F[q]]

\* the task with the target named after the keyword instead of the file
TaskMatchKw(t) ==
    /\ tasks[t].pc = "pending"
    /\ Cardinality(Running) < max_workers
    /\ LET filename == tasks[t].filepath[2]
           matched_kw == MatchKeyword(filename, keywords)
       IN  IF matched_kw = None
           THEN Return(t, NoResult)
           ELSE /\ tasks' = [tasks EXCEPT ![t].pc = "check",
                                          ![t].matched_kw = matched_kw,
                                          ![t].target_file = <<Resolve(dst), matched_kw[1]>>]
                /\ UNCHANGED completed
    /\ UNCHANGED <<inputs, files, ui, after_queue, thread, yielded, history>>

\* lines 17-31: a worker takes the task and matches the name
TaskMatch(t) ==
    /\ tasks[t].pc = "pending"
    /\ Cardinality(Running) < max_workers
    /\ LET filename == tasks[t].filepath[2]
           matched_kw == MatchKeyword(filename, keywords)
       IN  IF matched_kw = None
           THEN Return(t, NoResult)
           ELSE /\ tasks' = [tasks EXCEPT ![t].pc = "check",
                                          ![t].matched_kw = matched_kw,
                                          ![t].target_file = <<Resolve(dst), filename>>]
                /\ UNCHANGED completed
    /\ UNCHANGED <<inputs, files, ui, after_queue, thread, yielded, history>>

\* the task without the existence check
TaskCheckBlind(t) ==
    /\ tasks[t].pc = "check"
    /\ tasks' = [tasks EXCEPT ![t].pc = "copy"]
    /\ UNCHANGED <<inputs, files, ui, after_queue, thread, completed, yielded, history>>

\* lines 34-37: the first existence check
TaskCheck(t) ==
    /\ tasks[t].pc = "check"
    /\ IF Exists(tasks[t].target_file, files, dirs)
       THEN tasks' = [tasks EXCEPT ![t].pc = "while",
                                   ![t].base = Stem(tasks[t].target_file[2]),
                                   ![t].ext = Suffix(tasks[t].target_file[2]),
                                   ![t].idx = 1]
       ELSE tasks' = [tasks EXCEPT ![t].pc = "copy"]
    /\ UNCHANGED <<inputs, files, ui, after_queue, thread, completed, yielded, history>>

\* the loop as an `if`: the first suffixed name is taken unchecked
TaskProbeOnce(t) ==
    /\ tasks[t].pc = "while"
    /\ tasks' = [tasks EXCEPT
                    ![t].target_file =
                        <<Resolve(dst),
                          SuffixedName(tasks[t].base, tasks[t].idx, tasks[t].ext)>>,
                    ![t].idx = tasks[t].idx + 1,
                    ![t].pc = "copy"]
    /\ UNCHANGED <<inputs, files, ui, after_queue, thread, completed, yielded, history>>

\* the loop without its body: the same name is tested again
TaskProbeStuck(t) ==
    /\ tasks[t].pc = "while"
    /\ IF Exists(tasks[t].target_file, files, dirs)
       THEN UNCHANGED tasks
       ELSE tasks' = [tasks EXCEPT ![t].pc = "copy"]
    /\ UNCHANGED <<inputs, files, ui, after_queue, thread, completed, yielded, history>>

\* lines 38-40: one test of the while loop, and its body
TaskProbe(t) ==
    /\ tasks[t].pc = "while"
    /\ IF Exists(tasks[t].target_file, files, dirs)
       THEN tasks' = [tasks EXCEPT
                         ![t].target_file =
                             <<Resolve(dst),
                               SuffixedName(tasks[t].base, tasks[t].idx, tasks[t].ext)>>,
                         ![t].idx = tasks[t].idx + 1]
       ELSE tasks' = [tasks EXCEPT ![t].pc = "copy"]
    /\ UNCHANGED <<inputs, files, ui, after_queue, thread, completed, yielded, history>>

\* line 42, first half: shutil.copy2 opens the target for writing, which
\* creates it or truncates what is there
TaskCopyOpen(t) ==
    /\ tasks[t].pc = "copy"
    /\ files' = Written(files, tasks[t].target_file, Partial(files[tasks[t].filepath]))
    /\ tasks' = [tasks EXCEPT ![t].pc = "writing"]
    /\ UNCHANGED <<inputs, ui, after_queue, thread, completed, yielded, history>>

\* lines 42-43, second half: the bytes and the metadata are written
TaskCopyWrite(t) ==
    /\ tasks[t].pc = "writing"
    /\ files' = Written(files, tasks[t].target_file, files[tasks[t].filepath])
    /\ Return(t, Result("COPIED", tasks[t].filepath[2], tasks[t].matched_kw[1]))
    /\ UNCHANGED <<inputs, ui, after_queue, thread, yielded, history>>

\* lines 45-46: a filesystem call raises; what was written so far stays
TaskRaise(t) ==
    /\ tasks[t].pc \in {"check", "while", "copy", "writing"}
    /\ Return(t, Result("ERROR", tasks[t].filepath[2], <<"e", "r", "r">>))
    /\ UNCHANGED <<inputs, files, ui, after_queue, thread, yielded, history>>

(***************************************************************************)
(* The concurrent specification: a small tree, any pair of entries, one    *)
(* or more presses of the run button.                                      *)
(***************************************************************************)
S == <<"s">>
D == <<"d">>
O == <<"o">>
X == <<"x">>
TreeDirs == {<<S>>, <<S, D>>, <<O>>}
A_T == <<"a", ".", "t">>
A_1_T == <<"a", "_", "1", ".", "t">>
NamePool == {A_T, A_1_T, D}
EntryPool == TreeDirs \cup {<<>>, <<X>>}
KeywordTexts ==
    {<<>>, << <<" ">> >>, << <<"a">> >>, << <<" ">>, <<" ", "d">>, <<"a", "_">> >>}

\* ThreadPoolExecutor(): max_workers = min(32, (os.cpu_count() or 1) + 4)
DefaultWorkers(cpu_count) == IF cpu_count + 4 < 32 THEN cpu_count + 4 ELSE 32

Idle ==
    /\ btn_run = "normal"
    /\ txt_log = <<>>
    /\ dialog = "none"
    /\ after_queue = <<>>
    /\ pc = "idle"
    /\ keywords = <<>>
    /\ src = <<>>
    /\ dst = <<>>
    /\ all_files = <<>>
    /\ copied_count = 0
    /\ tasks = <<>>
    /\ completed = <<>>
    /\ yielded = <<>>
    /\ runs = 0
    /\ dst_before = <<>>
    /\ first_count = 0
    /\ visited = <<>>

\* no file has the path of a directory
ValidFiles(P, dd) == \A q \in P : (q[1] \o <<q[2]>>) \notin dd

\* the user's input to one session on the small tree
SmallTree ==
    /\ txt_keywords \in KeywordTexts
    /\ entry_src_path \in EntryPool
    /\ entry_dst_path \in EntryPool
    /\ dirs = TreeDirs
    /\ \E P \in SUBSET (TreeDirs \X NamePool) :
          /\ Cardinality(P) <= MaxFiles
          /\ ValidFiles(P, TreeDirs)
          /\ files = [q \in P |-> Content(q)]
    /\ max_workers = DefaultWorkers(1)

Init ==
    /\ SmallTree
    /\ presses = 1
    /\ Idle

Next ==
    \/ StartProcess
    \/ RunAfter
    \/ RunScan
    \/ Collect
    \/ Finish
    \/ \E t \in DOMAIN tasks : TaskMatch(t)
    \/ \E t \in DOMAIN tasks : TaskCheck(t)
    \/ \E t \in DOMAIN tasks : TaskProbe(t)
    \/ \E t \in DOMAIN tasks : TaskCopyOpen(t)
    \/ \E t \in DOMAIN tasks : TaskCopyWrite(t)
    \/ \E t \in DOMAIN tasks : TaskRaise(t)

Spec == Init /\ [][Next]_vars

(***************************************************************************)
(* The repeated-run specification: the button is pressed again after a     *)
(* run has finished, with the same input, and no filesystem call fails.    *)
(***************************************************************************)
InitRerun ==
    /\ SmallTree
    /\ presses = MaxRuns
    /\ Idle

NextRerun ==
    \/ StartProcess
    \/ RunAfter
    \/ RunScan
    \/ Collect
    \/ Finish
    \/ \E t \in DOMAIN tasks : TaskMatch(t)
    \/ \E t \in DOMAIN tasks : TaskCheck(t)
    \/ \E t \in DOMAIN tasks : TaskProbe(t)
    \/ \E t \in DOMAIN tasks : TaskCopyOpen(t)
    \/ \E t \in DOMAIN tasks : TaskCopyWrite(t)

SpecRerun == InitRerun /\ [][NextRerun]_vars

(***************************************************************************)
(* The scan specification: a deeper tree with files anywhere in it, the    *)
(* entries spelled with and without "." and "..", up to the submission of  *)
(* the tasks.                                                              *)
(***************************************************************************)
ScanDirs == {<<S>>, <<S, D>>, <<S, D, O>>, <<S, O>>, <<O>>}
ScanEntries ==
    ScanDirs \cup {<<S, Dot, D>>, <<S, D, DotDot>>, <<S, O, DotDot, D>>, <<O, Dot>>}
ScanNames == {A_T, D}

InitScan ==
    /\ txt_keywords = << <<"a">> >>
    /\ entry_src_path \in ScanEntries
    /\ entry_dst_path \in ScanEntries
    /\ dirs = ScanDirs
    /\ \E P \in SUBSET (ScanDirs \X ScanNames) :
          /\ ValidFiles(P, ScanDirs)
          /\ files = [q \in P |-> Content(q)]
    /\ max_workers = DefaultWorkers(1)
    /\ presses = 1
    /\ Idle

NextScan ==
    \/ StartProcess
    \/ RunScan

SpecScan == InitScan /\ [][NextScan]_vars

(***************************************************************************)
(* The state of a run right after the submission of the tasks for one      *)
(* candidate file, as StartProcess and RunScan leave it.                   *)
(***************************************************************************)
Submitted(kws, candidate) ==
    /\ txt_keywords = kws
    /\ entry_src_path = candidate[1]
    /\ max_workers = DefaultWorkers(1)
    /\ presses = 1
    /\ btn_run = "disabled"
    /\ txt_log = <<Msg("START", <<>>, <<>>, Len(kws))>>
    /\ dialog = "none"
    /\ after_queue = After(<<>>, "append_log", Msg("TARGETS", <<>>, <<>>, 1))
    /\ pc = "collect"
    /\ keywords = kws
    /\ src = entry_src_path
    /\ dst = entry_dst_path
    /\ all_files = <<candidate>>
    /\ copied_count = 0
    /\ tasks = Submit(<<candidate>>)
    /\ completed = <<>>
    /\ yielded = <<>>
    /\ runs = 1
    /\ dst_before = Snapshot(DstDir, files)
    /\ first_count = 0
    /\ visited = Walk(entry_src_path, dirs)

(***************************************************************************)
(* The matching specification: process_single_file's matching step on a    *)
(* file name and a keyword list, the empty list included.                  *)
(***************************************************************************)
KeywordPool == {<<"a">>, <<"A">>, <<"a", "b">>, <<"b", "a">>}
MatchNames == {<<"a", "b">>, <<"A", "b">>, <<"b", "a", "b">>, <<"c">>, <<"b", "A">>}
KeywordLists ==
    UNION {[1..n -> KeywordPool] : n \in 0..MaxKeywords}

InitMatch ==
    /\ entry_dst_path = <<O>>
    /\ dirs = TreeDirs
    /\ \E name \in MatchNames, kws \in KeywordLists :
          /\ files = [q \in {<<<<S>>, name>>} |-> Content(q)]
          /\ Submitted(kws, <<<<S>>, name>>)

NextMatch == \E t \in DOMAIN tasks : TaskMatch(t)

SpecMatch == InitMatch /\ [][NextMatch]_vars

(***************************************************************************)
(* The resolver specification: one task alone, resolving its target        *)
(* against a destination directory with files, and possibly a              *)
(* subdirectory, in it.                                                    *)
(***************************************************************************)
A_2_T == <<"a", "_", "2", ".", "t">>
A_3_T == <<"a", "_", "3", ".", "t">>
D_1 == <<"d", "_", "1">>
D_2 == <<"d", "_", "2">>
DotC == <<".", "c">>
DotC_1 == <<".", "c", "_", "1">>
A_Dot == <<"a", ".">>
A_Dot_1 == <<"a", ".", "_", "1">>
ResolveNames == {A_T, D, DotC, A_Dot}
DstNamePool == {A_T, A_1_T, A_2_T, A_3_T, D, D_1, D_2, DotC, DotC_1, A_Dot, A_Dot_1}
ResolveKeywords == << <<"a">>, <<"d">>, <<"c">> >>

InitResolve ==
    /\ entry_dst_path = <<O>>
    /\ dirs \in {{<<S>>, <<O>>}, {<<S>>, <<O>>, <<O, D>>}}
    /\ \E name \in ResolveNames, P \in SUBSET ({<<O>>} \X DstNamePool) :
          /\ Cardinality(P) <= MaxDstFiles
          /\ ValidFiles(P, dirs)
          /\ files = [q \in P \cup {<<<<S>>, name>>} |-> Content(q)]
          /\ Submitted(ResolveKeywords, <<<<S>>, name>>)

NextResolve ==
    \/ \E t \in DOMAIN tasks : TaskMatch(t)
    \/ \E t \in DOMAIN tasks : TaskCheck(t)
    \/ \E t \in DOMAIN tasks : TaskProbe(t)

SpecResolve == InitResolve /\ [][NextResolve]_vars

(***************************************************************************)
(* The distinct-names specification: every candidate lies in the one       *)
(* source directory, so no two have one name, and the destination holds    *)
(* any of the names the resolver can come to.                              *)
(***************************************************************************)
DistinctPool == {A_T, A_1_T}

InitDistinct ==
    /\ txt_keywords = << <<"a">> >>
    /\ entry_src_path = <<S>>
    /\ entry_dst_path = <<O>>
    /\ dirs = TreeDirs
    /\ \E P \in SUBSET ({<<S>>, <<O>>} \X DistinctPool) :
          files = [q \in P |-> Content(q)]
    /\ max_workers = DefaultWorkers(1)
    /\ presses = 1
    /\ Idle

SpecDistinct == InitDistinct /\ [][Next]_vars

(***************************************************************************)
(* The fair specification: the Tk main loop runs the callbacks scheduled   *)
(* with after, the run_parallel_task thread takes its next step, and the   *)
(* pool's workers take the next step of some task that has one.  A         *)
(* filesystem call may fail at any time or never.                          *)
(***************************************************************************)
MainLoop == RunAfter

Thread == RunScan \/ Collect \/ Finish

Work ==
    \E t \in DOMAIN tasks :
        \/ TaskMatch(t)
        \/ TaskCheck(t)
        \/ TaskProbe(t)
        \/ TaskCopyOpen(t)
        \/ TaskCopyWrite(t)

Fairness == WF_vars(MainLoop) /\ WF_vars(Thread) /\ WF_vars(Work)

SpecFair == InitDistinct /\ [][Next]_vars /\ Fairness

(***************************************************************************)
(* The serial specification: a pool of one worker, candidates of one name  *)
(* from two directories and of a second name, and a destination that       *)
(* holds any of these names.                                               *)
(***************************************************************************)
InitSerial ==
    /\ txt_keywords = << <<"a">> >>
    /\ entry_src_path = <<S>>
    /\ entry_dst_path = <<O>>
    /\ dirs = TreeDirs
    /\ \E P \in SUBSET (({<<S>>, <<S, D>>, <<O>>} \X {A_T}) \cup ({<<S>>, <<O>>} \X {A_1_T})) :
          files = [q \in P |-> Content(q)]
    /\ max_workers = 1
    /\ presses = 1
    /\ Idle

SpecSerial == InitSerial /\ [][Next]_vars

(***************************************************************************)
(* Vocabulary of the properties.                                           *)
(***************************************************************************)
\* kw occurs in s, character by character
Contains(s, kw) ==
    \E i \in 1..(Len(s) + 1) :
        \A k \in 1..Len(kw) : i + k - 1 <= Len(s) /\ s[i + k - 1] = kw[k]

\* the file name of task t contains one of the run's keywords
Matches(t) == \E i \in DOMAIN keywords : Contains(tasks[t].filepath[2], keywords[i])

\* the result of task t, once it is done
Status(t) == tasks[t].result.status

\* ui_finish has run for the latest run
Finished == runs > 0 /\ btn_run = "normal"

\* the count ui_finish reported
Reported == txt_log[Len(txt_log)].n

\* the messages of the latest run, shown or scheduled, in the order of their
\* scheduling
Emitted == txt_log \o [i \in 1..Len(after_queue) |-> after_queue[i].msg]

EventsOf(kind) == {i \in DOMAIN Emitted : Emitted[i].kind = kind}

\* the files now in the destination directory
InDst == {q \in DOMAIN files : q[1] = DstDir}

\* d is p or lies under p
Under(d, p) == Len(p) <= Len(d) /\ \A k \in 1..Len(p) : d[k] = p[k]

\* the candidate files have pairwise distinct names
DistinctNames ==
    \A i, j \in DOMAIN tasks : tasks[i].filepath[2] = tasks[j].filepath[2] => i = j

\* name is stem_k.ext of the name n for some k >= 1
SuffixOf(name, n) ==
    \E k \in 1..(Cardinality(DOMAIN files) + 1) :
        name = Stem(n) \o <<"_">> \o Decimal(k) \o Suffix(n)

EmptyAtStart ==
    /\ DOMAIN dst_before = {}
    /\ \A d \in dirs : ~(Under(d, DstDir) /\ d # DstDir)

C3_DistinctNamesAllCopied ==
    (/\ Finished
     /\ EmptyAtStart
     /\ DistinctNames
     /\ \A t \in DOMAIN tasks : Matches(t) /\ Status(t) # "ERROR")
    => /\ Cardinality(InDst) = Len(all_files)
       /\ Reported = Len(all_files)

C3_Witness ==
    /\ Finished
    /\ EmptyAtStart
    /\ DistinctNames
    /\ \A t \in DOMAIN tasks : Matches(t) /\ Status(t) # "ERROR"
    /\ Len(all_files) >= 2
    /\ Cardinality(InDst) = Len(all_files)

(***************************************************************************)
(* C4: every task that matched and failed has a failure message with the   *)
(* file's name among the messages of the run, and every matched task has   *)
(* exactly one message.                                                    *)
(***************************************************************************)
C4_FailedEventDelivered ==
    Finished =>
       \A t \in DOMAIN tasks :
          /\ Status(t) = "ERROR" =>
                \E i \in EventsOf("ERROR") : Emitted[i].name = tasks[t].filepath[2]
          /\ Matches(t) =>
                \E i \in EventsOf("ERROR") \cup EventsOf("COPIED") :
                    Emitted[i].name = tasks[t].filepath[2]

(***************************************************************************)
(* C5: once ui_finish is scheduled or has run, every task is done and its  *)
(* result has been taken from as_completed, and no copy message follows    *)
(* the message of the final count.                                         *)
(***************************************************************************)
FinishScheduled ==
    \/ \E i \in DOMAIN after_queue : after_queue[i].fn = "ui_finish"
    \/ Finished

C5_FinishAfterAllTasks ==
    /\ FinishScheduled =>
          \A t \in DOMAIN tasks :
              /\ tasks[t].pc = "done"
              /\ \E i \in DOMAIN yielded : yielded[i] = t
    /\ \A i \in EventsOf("DONE") : \A j \in EventsOf("COPIED") : j < i
    /\ \A i \in DOMAIN after_queue :
          after_queue[i].fn = "ui_finish" => i = Len(after_queue)

C5_Witness ==
    /\ Finished
    /\ Len(tasks) >= 2
    /\ Cardinality(EventsOf("COPIED")) >= 2

(***************************************************************************)
(* C6: a task that fails changes no other task's result and does not end   *)
(* the run: every task that matched and did not fail itself ends as        *)
(* copied, its copy message is emitted and counted, and while the button   *)
(* is disabled the thread is alive and can take a further step, or         *)
(* ui_finish is scheduled.                                                 *)
(***************************************************************************)
RunCanProceed ==
    \/ pc = "scan"
    \/ /\ pc = "collect"
       /\ \/ \E t \in DOMAIN tasks : tasks[t].pc # "done"
          \/ AsCompleted(completed, yielded) # {}
          \/ Exhausted(tasks, yielded) /\ Shutdown(tasks)
    \/ \E i \in DOMAIN after_queue : after_queue[i].fn = "ui_finish"

C6_FailureIsLocal ==
    /\ \A t \in DOMAIN tasks :
          tasks[t].pc = "done" /\ Matches(t) /\ Status(t) # "ERROR" =>
             Status(t) = "COPIED"
    /\ Finished =>
          /\ \A t \in DOMAIN tasks :
                Status(t) = "COPIED" =>
                   \E i \in EventsOf("COPIED") : Emitted[i].name = tasks[t].filepath[2]
          /\ Reported = Cardinality({t \in DOMAIN tasks : Status(t) = "COPIED"})
    /\ btn_run = "disabled" => RunCanProceed

C6_Witness ==
    /\ Finished
    /\ \E t, u \in DOMAIN tasks : Status(t) = "ERROR" /\ Status(u) = "COPIED"

(***************************************************************************)
(* C10: the tasks are the candidates, one each and in their order; a task  *)
(* finishes once and its result is final; as_completed hands each          *)
(* finished task to the loop at most once, and all of them before the      *)
(* final count; the count is the number of copy messages of the run and    *)
(* at most the number of candidates whose name contains a keyword.         *)
(***************************************************************************)
Occurrences(seq, x) == Cardinality({i \in DOMAIN seq : seq[i] = x})

C10_OneResultPerCandidate ==
    /\ pc # "scan" =>
          /\ Len(tasks) = Len(all_files)
          /\ \A i \in DOMAIN tasks : tasks[i].filepath = all_files[i]
          /\ \A i, j \in DOMAIN all_files : all_files[i] = all_files[j] => i = j
    /\ \A t \in DOMAIN tasks :
          /\ Occurrences(completed, t) = (IF tasks[t].pc = "done" THEN 1 ELSE 0)
          /\ Occurrences(yielded, t) <= Occurrences(completed, t)
          /\ tasks[t].pc # "done" => tasks[t].result = NoResult
    /\ copied_count = Cardinality(EventsOf("COPIED"))
    /\ copied_count = Cardinality({i \in DOMAIN yielded : Status(yielded[i]) = "COPIED"})
    /\ FinishScheduled =>
          /\ \A t \in DOMAIN tasks : Occurrences(yielded, t) = 1
          /\ \A i \in EventsOf("DONE") : Emitted[i].n = Cardinality(EventsOf("COPIED"))
          /\ copied_count <= Cardinality({t \in DOMAIN tasks : Matches(t)})

C10_Witness ==
    /\ Finished
    /\ Len(tasks) >= 2
    /\ Reported = 1
    /\ Cardinality({t \in DOMAIN tasks : Matches(t)}) = 2

(***************************************************************************)
(* C1: after the scan, no candidate lies in the destination directory or   *)
(* in a directory under it, and every file in another directory of the     *)
(* source tree is a candidate, whatever the two entries are and however    *)
(* they are spelled.                                                       *)
(***************************************************************************)
C1_DestinationExcluded ==
    pc = "collect" =>
       /\ \A i \in DOMAIN all_files :
             /\ ~Under(all_files[i][1], Resolve(dst))
             /\ all_files[i] \in DOMAIN files
       /\ \A q \in DOMAIN files :
             Under(q[1], Resolve(src)) /\ ~Under(q[1], Resolve(dst)) =>
                \E i \in DOMAIN all_files : all_files[i] = q

C1_Witness ==
    /\ pc = "collect"
    /\ Resolve(dst) # Resolve(src)
    /\ Under(Resolve(dst), Resolve(src))
    /\ \E q \in DOMAIN files : Under(q[1], Resolve(dst)) /\ q[1] # Resolve(dst)
    /\ all_files # <<>>

(***************************************************************************)
(* C7: the matching step selects the keyword with the least index among    *)
(* those the file name contains, character for character; when the name    *)
(* contains none, also when there is no keyword, the task returns None.    *)
(***************************************************************************)
C7_FirstKeywordInListOrder ==
    \A t \in DOMAIN tasks :
       tasks[t].pc # "pending" =>
          LET Hits == {i \in DOMAIN keywords : Contains(tasks[t].filepath[2], keywords[i])}
          IN  IF Hits = {}
              THEN /\ tasks[t].matched_kw = None
                   /\ tasks[t].pc = "done"
                   /\ tasks[t].result = NoResult
              ELSE /\ \E i \in Hits :
                         /\ \A j \in Hits : i <= j
                         /\ tasks[t].matched_kw = <<keywords[i]>>
                   /\ tasks[t].pc = "check"

C7_Witness ==
    \E t \in DOMAIN tasks :
       /\ tasks[t].pc = "check"
       /\ Len(keywords) >= 2
       /\ tasks[t].matched_kw = <<keywords[1]>>
       /\ Len(keywords[2]) > Len(keywords[1])
       /\ Contains(tasks[t].filepath[2], keywords[2])

(***************************************************************************)
(* C8: a task that resolves its target alone ends with the desired name    *)
(* when nothing of that name is in the destination directory, otherwise    *)
(* with stem_k.ext for the least k >= 1 that is free; the target is free   *)
(* in both cases.                                                          *)
(***************************************************************************)
Taken(name) == <<DstDir, name>> \in DOMAIN files \/ (DstDir \o <<name>>) \in dirs

Numbered(n, k) == Stem(n) \o <<"_">> \o Decimal(k) \o Suffix(n)

C8_SmallestFreeSuffix ==
    \A t \in DOMAIN tasks :
       tasks[t].pc = "copy" =>
          LET n == tasks[t].filepath[2]
              target == tasks[t].target_file
          IN  /\ target[1] = DstDir
              /\ ~Taken(target[2])
              /\ IF ~Taken(n) THEN target[2] = n
                 ELSE \E k \in 1..(Cardinality(DOMAIN files) + 1) :
                         /\ target[2] = Numbered(n, k)
                         /\ \A j \in 1..(k - 1) : Taken(Numbered(n, j))

C8_Witness ==
    \E t \in DOMAIN tasks :
       /\ tasks[t].pc = "copy"
       /\ Suffix(tasks[t].filepath[2]) # <<>>
       /\ tasks[t].target_file[2] = Numbered(tasks[t].filepath[2], 3)

(***************************************************************************)
(* C9: when a run after the first has finished, with pairwise distinct     *)
(* candidate names, every file the destination held when that run started  *)
(* (the earlier runs' output included) is unchanged, every file the run    *)
(* added carries a suffixed name of a candidate, one file was added per    *)
(* matching candidate, and the reported count is the number of matching    *)
(* candidates, as in the first run.                                        *)
(***************************************************************************)
C9_SecondRunOnlyAdds ==
    (Finished /\ runs >= 2 /\ DistinctNames) =>
       /\ \A q \in DOMAIN dst_before : q \in DOMAIN files /\ files[q] = dst_before[q]
       /\ \A q \in InDst \ DOMAIN dst_before :
             \E t \in DOMAIN tasks : SuffixOf(q[2], tasks[t].filepath[2])
       /\ Cardinality(InDst \ DOMAIN dst_before)
             = Cardinality({t \in DOMAIN tasks : Matches(t)})
       /\ Reported = Cardinality({t \in DOMAIN tasks : Matches(t)})
       /\ Reported = first_count

C9_Witness ==
    /\ Finished
    /\ runs >= 2
    /\ DistinctNames
    /\ Reported = 2
    /\ Cardinality(InDst \ DOMAIN dst_before) = 2

(***************************************************************************)
(* C11: a candidate whose name contains no keyword never gets a target,    *)
(* none of its bytes reach the destination, no copy message names it and   *)
(* the count stays within the matching candidates; when the run has        *)
(* finished without a failure and no matching name was taken or shared,    *)
(* the destination has gained exactly the matching candidates, each under  *)
(* its own name and with its content.                                      *)
(***************************************************************************)
NoCollision ==
    /\ \A t \in DOMAIN tasks : Matches(t) => ~Exists(<<DstDir, tasks[t].filepath[2]>>,
                                                     dst_before, dirs)
    /\ \A t, u \in DOMAIN tasks :
          Matches(t) /\ Matches(u) /\ tasks[t].filepath[2] = tasks[u].filepath[2] => t = u

C11_UnmatchedUntouched ==
    /\ \A t \in DOMAIN tasks :
          ~Matches(t) =>
             /\ tasks[t].pc \in {"pending", "done"}
             /\ tasks[t].target_file = <<>>
             /\ tasks[t].result = NoResult
             /\ \A q \in InDst : files[q].data # tasks[t].filepath
             /\ \A i \in EventsOf("COPIED") : Emitted[i].name # tasks[t].filepath[2]
    /\ copied_count <= Cardinality({t \in DOMAIN tasks : Matches(t) /\ tasks[t].pc = "done"})
    /\ (Finished /\ NoCollision /\ \A t \in DOMAIN tasks : Status(t) # "ERROR") =>
          /\ InDst \ DOMAIN dst_before
                = {<<DstDir, tasks[t].filepath[2]>> : t \in {u \in DOMAIN tasks : Matches(u)}}
          /\ \A t \in DOMAIN tasks :
                Matches(t) => files[<<DstDir, tasks[t].filepath[2]>>] = files[tasks[t].filepath]
          /\ Reported = Cardinality({t \in DOMAIN tasks : Matches(t)})

C11_Witness ==
    /\ Finished
    /\ NoCollision
    /\ \A t \in DOMAIN tasks : Status(t) # "ERROR"
    /\ \E t, u \in DOMAIN tasks : Matches(t) /\ ~Matches(u)
    /\ Reported = 1

(***************************************************************************)
(* C12: two tasks can pass the existence check for one path before either  *)
(* writes it (the witness: two files of one name from two directories).    *)
(* Whenever two tasks have both been copied to one target, the copies      *)
(* counted exceed the paths written, and without a failure the reported    *)
(* count exceeds the number of files the destination has gained.           *)
(***************************************************************************)
CopiedTasks == {t \in DOMAIN tasks : Status(t) = "COPIED"}

Raced ==
    \E t, u \in CopiedTasks : t # u /\ tasks[t].target_file = tasks[u].target_file

C12_RaceLosesAFile ==
    (Finished /\ Raced) =>
       /\ Cardinality({tasks[t].target_file : t \in CopiedTasks}) < Reported
       /\ (\A t \in DOMAIN tasks : Status(t) # "ERROR") =>
             Cardinality(InDst \ DOMAIN dst_before) < Reported

C12_Witness ==
    /\ Finished
    /\ \A t \in DOMAIN tasks : Status(t) # "ERROR"
    /\ \E t, u \in CopiedTasks :
          /\ tasks[t].filepath[1] # tasks[u].filepath[1]
          /\ tasks[t].filepath[2] = tasks[u].filepath[2]
          /\ tasks[t].target_file = tasks[u].target_file
    /\ Reported = 2
    /\ Cardinality(InDst \ DOMAIN dst_before) = 1

(***************************************************************************)
(* C13, as claimed: after the scan no candidate comes from a directory     *)
(* that is the destination or lies under it, and os.walk has yielded no    *)
(* subdirectory of such a directory.                                       *)
(***************************************************************************)
Skipped(i) == Under(Resolve(visited[i]), Resolve(dst))

InputOk ==
    /\ \E i \in DOMAIN txt_keywords : Strip(txt_keywords[i]) # <<>>
    /\ entry_src_path # <<>> /\ Resolve(entry_src_path) \in dirs
    /\ entry_dst_path # <<>> /\ Resolve(entry_dst_path) \in dirs

C14_InvalidInputDoesNothing ==
    ~InputOk =>
       /\ dialog \in {"none", "warning"}
       /\ pc = "idle"
       /\ runs = 0
       /\ visited = <<>>
       /\ all_files = <<>>
       /\ tasks = <<>>
       /\ after_queue = <<>>
       /\ btn_run = "normal"
       /\ txt_log = <<>>
       /\ \A q \in DOMAIN files : files[q] = Content(q)

C14_Witness ==
    /\ dialog = "warning"
    /\ \E i \in DOMAIN txt_keywords : Strip(txt_keywords[i]) # <<>>
    /\ Resolve(entry_src_path) \in dirs
    /\ entry_dst_path = <<X>>
    /\ \E q \in DOMAIN files : q[1] = Resolve(entry_src_path)

(***************************************************************************)
(* C15, as claimed: when all candidates match and their names are pairwise *)
(* distinct, no two tasks have opened one destination path for writing,    *)
(* and a run finished without a failure has added as many files to the     *)
(* destination as it reports.                                              *)
(***************************************************************************)
Opened(t) == tasks[t].pc = "writing" \/ Status(t) = "COPIED"

C15_DistinctNamesDistinctTargets ==
    (DistinctNames /\ \A t \in DOMAIN tasks : Matches(t)) =>
       /\ \A t, u \in DOMAIN tasks :
             (Opened(t) /\ Opened(u) /\ tasks[t].target_file = tasks[u].target_file)
                => t = u
       /\ (Finished /\ \A t \in DOMAIN tasks : Status(t) # "ERROR") =>
             Cardinality(InDst \ DOMAIN dst_before) = Reported

(***************************************************************************)
(* C16, as claimed: with one worker, the tasks that returned a copy have   *)
(* pairwise distinct targets, none of which was in the destination when    *)
(* the run started, and a finished run has added as many files to the      *)
(* destination as it reports.                                              *)
(***************************************************************************)
Gained == InDst \ DOMAIN dst_before

DistinctNewTargets ==
    /\ \A t \in CopiedTasks :
          /\ tasks[t].target_file \in Gained
          /\ files[tasks[t].target_file] = files[tasks[t].filepath]
    /\ \A t, u \in CopiedTasks : tasks[t].target_file = tasks[u].target_file => t = u

C16_SerialGrowsByCount ==
    /\ DistinctNewTargets
    /\ Finished => Cardinality(Gained) = Reported

(***************************************************************************)
(* C16, amended: with one worker, at most one task is between its match    *)
(* and its return, the copied tasks have pairwise distinct new targets     *)
(* holding their files' content, and a finished run has added as many      *)
(* files as it reports plus the incomplete files that failed copies left   *)
(* behind: exactly the reported count when no copy failed.                 *)
(***************************************************************************)
LeftBehind == {q \in Gained : ~files[q].complete}

C16_SerialGrowsByCountAndLeftovers ==
    /\ Cardinality({t \in DOMAIN tasks : tasks[t].pc \notin {"pending", "done"}}) <= 1
    /\ DistinctNewTargets
    /\ \A q \in LeftBehind :
          \E t \in DOMAIN tasks :
              /\ tasks[t].target_file = q
              /\ tasks[t].pc = "writing" \/ Status(t) = "ERROR"
    /\ Finished =>
          /\ Cardinality(Gained) = Reported + Cardinality(LeftBehind)
          /\ (\A t \in DOMAIN tasks : Status(t) # "ERROR") =>
                Cardinality(Gained) = Reported

C16_Witness ==
    /\ Finished
    /\ max_workers = 1
    /\ \A t \in DOMAIN tasks : Status(t) # "ERROR"
    /\ \E t, u \in CopiedTasks :
          /\ t # u
          /\ tasks[t].filepath[2] = tasks[u].filepath[2]
          /\ tasks[t].target_file # tasks[u].target_file
    /\ DOMAIN dst_before # {}
    /\ Reported = 3
    /\ Cardinality(Gained) = 3

(***************************************************************************)
(* C17: while the thread of a run is scanning or collecting, a task of it  *)
(* is not done or its ui_finish is still to run, the button is disabled;   *)
(* a run starts only when none of this is the case; and the button         *)
(* becomes enabled only by a step that takes ui_finish off the queue.      *)
(***************************************************************************)
Active ==
    \/ pc # "idle"
    \/ \E t \in DOMAIN tasks : tasks[t].pc # "done"
    \/ \E i \in DOMAIN after_queue : after_queue[i].fn = "ui_finish"

C17_OneRunAtATime ==
    /\ [](Active => btn_run = "disabled")
    /\ [][runs' # runs => ~Active /\ btn_run' = "disabled"]_vars
    /\ [][(btn_run = "disabled" /\ btn_run' = "normal") =>
             /\ after_queue # <<>>
             /\ Head(after_queue).fn = "ui_finish"
             /\ after_queue' = Tail(after_queue)
             /\ ~Active']_vars

C17_Witness ==
    /\ runs = 2
    /\ btn_run = "disabled"
    /\ pc = "collect"
    /\ \E t, u \in DOMAIN tasks : tasks[t].pc = "writing" /\ tasks[u].pc = "pending"

(***************************************************************************)
(* C18: ui_finish is scheduled or run at most once per run, and a run      *)
(* that passed the validation leads to the state in which the thread has   *)
(* ended, every task is done, ui_finish has run once, the log ends with    *)
(* the number of copied tasks and the button is enabled: whether the       *)
(* copies succeed or fail.                                                 *)
(***************************************************************************)
FinishCalls ==
    Cardinality({i \in DOMAIN txt_log : txt_log[i].kind = "DONE"})
      + Cardinality({i \in DOMAIN after_queue : after_queue[i].fn = "ui_finish"})

Completed ==
    /\ pc = "idle"
    /\ \A t \in DOMAIN tasks : tasks[t].pc = "done"
    /\ Len(tasks) = Len(all_files)
    /\ after_queue = <<>>
    /\ FinishCalls = 1
    /\ txt_log[Len(txt_log)].kind = "DONE"
    /\ txt_log[Len(txt_log)].n = Cardinality({t \in DOMAIN tasks : Status(t) = "COPIED"})
    /\ dialog = "info"
    /\ btn_run = "normal"

C18_ValidatedRunFinishes ==
    /\ [](FinishCalls <= 1)
    /\ (btn_run = "disabled") ~> Completed
    /\ [][Completed => Completed']_vars

C18_Witness ==
    /\ Completed
    /\ \E t, u \in DOMAIN tasks : Status(t) = "ERROR" /\ Status(u) = "COPIED"
    /\ \E t \in DOMAIN tasks : tasks[t].idx > 1

=============================================================================
